---- MODULE Spec2Model ----
(***************************************************************************)
(* sudoku-gen: the constraint engine of sudokugen/gen_sol.py (candidates,  *)
(* propagation, iterative backtracking, uniqueness verification, carving)  *)
(* and its generation pipeline, as state machines.                         *)
(***************************************************************************)
EXTENDS Naturals, Integers, Sequences, FiniteSets, TLC

VARIABLES
    pc,         \* call stack of routine labels, innermost last; <<>> once the run has returned
    board,      \* the grid held by the running routine (the popped frame, the grid operated on)
    start,      \* the grid the outermost routine was called with
    stack,      \* backtrack_iter / solution_unique: the stack of frames
    solutions,  \* solution_unique: the full grids found so far
    result,     \* the value returned by the last routine that returned
    draws,      \* draws of np.random.randint still unconstrained; later draws return 0
    xy,         \* backtrack_iter / solution_unique: the cell get_unfilled_cell_rand returned
    puzzle,     \* _create_puzzle: the grid being carved
    positions,  \* _create_puzzle: the shuffled positions still to try
    sol,        \* create_puzzle: the full grid the carved copy was taken from
    cell,       \* the cell last written by _create_puzzle or by a grid operation
    old_val,    \* _create_puzzle: the value remembered before clearing
    attempts    \* _create_puzzle: the cells cleared so far, in order (history)

carveVars == <<puzzle, positions, sol, cell, old_val, attempts>>

VARIABLES
    n_jobs,     \* main: the target number of jobs
    queue_size, \* main: the capacity of sol_q and puzzle_q
    sol_q,      \* jobs (starting board, ct), oldest first; a job is named by its ct
    puzzle_q,   \* (solution, ct)
    db_q,       \* (puzzle, solution, ct)
    unfinished, \* JoinableQueue: per queue, puts not yet matched by task_done
    solvers,    \* the create_solution processes holding a job: position and job
    carvers,    \* the create_puzzle processes holding a job: position and job
    db,         \* the to_db process: position, results, and the calls it has made
    inserted,   \* the batches handed to insert_solutions and insert_puzzles, in call order
    driver      \* main: position and enqueued

\* the variables of the engine's routines
VARIABLES
    heap,       \* the grid objects allocated so far; an object is named by its index
    refs        \* the names bound to objects: the caller's grid, the stack, board, solutions

heapVars == <<heap, refs>>

engineVars == <<pc, board, start, stack, solutions, result, draws, xy, carveVars, heapVars>>

pipeVars == <<n_jobs, queue_size, sol_q, puzzle_q, db_q, unfinished, solvers, carvers,
              db, inserted, driver>>

vars == <<pc, board, start, stack, solutions, result, draws, xy,
          puzzle, positions, sol, cell, old_val, attempts,
          n_jobs, queue_size, sol_q, puzzle_q, db_q, unfinished, solvers, carvers,
          db, inserted, driver, heap, refs>>

(***************************************************************************)
(* constants.py                                                            *)
(***************************************************************************)
BOARD_DIM == 9

COMPLETE_ROW == 1..9

Idx == 0..(BOARD_DIM - 1)

Cells == Idx \X Idx

BLOCK_ARRAY(x, y) == 3 * (x \div 3) + (y \div 3)

(***************************************************************************)
(* Grid model                                                              *)
(***************************************************************************)
\* np.count_nonzero(board)
count_nonzero(b) == Cardinality({c \in Cells : b[c] # 0})

is_filled(b) == count_nonzero(b) = BOARD_DIM * BOARD_DIM

\* squares(), computed once (lru_cache): groups[g] is the set of cells of block g
groups == [g \in Idx |-> {c \in Cells : BLOCK_ARRAY(c[1], c[2]) = g}]

\* squares(): lookup[(x, y)] is the block of cell (x, y)
lookup == [c \in Cells |-> BLOCK_ARRAY(c[1], c[2])]

\* choices_from_square keeping the numbers of the block instead of removing them
choices_from_squarePresent(b, x, y) ==
    COMPLETE_ROW \cap {b[c] : c \in groups[lookup[<<x, y>>]]}

choices_from_square(b, x, y) ==
    LET g == lookup[<<x, y>>]
        cells_in_g == groups[g]
        numbers_in_g == {b[c] : c \in cells_in_g}
    IN  COMPLETE_ROW \ numbers_in_g

\* construct_candidates without the column
construct_candidatesNoColumn(b, x, y) ==
    LET possible_from_row == COMPLETE_ROW \ {b[<<x, j>>] : j \in Idx}
        possible_from_square == choices_from_square(b, x, y)
    IN  possible_from_row \cap possible_from_square

construct_candidates(b, x, y) ==
    LET possible_from_row == COMPLETE_ROW \ {b[<<x, j>>] : j \in Idx}
        possible_from_col == COMPLETE_ROW \ {b[<<i, y>>] : i \in Idx}
        possible_from_square == choices_from_square(b, x, y)
    IN  possible_from_col \cap possible_from_row \cap possible_from_square

\* the cells in row-major order, as np.indices and np.argwhere enumerate them
CellAt(i) == <<i \div BOARD_DIM, i % BOARD_DIM>>

ScanOrder == [i \in 1..(BOARD_DIM * BOARD_DIM) |-> CellAt(i - 1)]

\* np.argwhere(board == 0): the empty cells in row-major order
zero_indices(b) == SelectSeq(ScanOrder, LAMBDA c : b[c] = 0)

\* one cell of the scan of propagate_constraint; the cell is not tested for
\* being empty
\* PropagateCell taking the candidates from the row alone
PropagateCellRowOnly(b, c) ==
    LET candidates == COMPLETE_ROW \ {b[<<c[1], j>>] : j \in Idx}
    IN  IF Cardinality(candidates) = 1
        THEN [b EXCEPT ![c] = CHOOSE v \in candidates : TRUE]
        ELSE b

PropagateCell(b, c) ==
    LET candidates == construct_candidates(b, c[1], c[2])
    IN  IF Cardinality(candidates) = 1
        THEN [b EXCEPT ![c] = CHOOSE v \in candidates : TRUE]
        ELSE b

\* the grids: one value of 0..9 per cell, 0 for an empty cell
Boards == [Cells -> 0..BOARD_DIM]

\* the inner loop of propagate_constraint: row x from column y on
PropagateRow[b \in Boards, x \in Idx, y \in 0..BOARD_DIM] ==
    IF y = BOARD_DIM THEN b
    ELSE PropagateRow[PropagateCell(b, <<x, y>>), x, y + 1]

\* the outer loop of propagate_constraint: from row x on
PropagateRows[b \in Boards, x \in 0..BOARD_DIM] ==
    IF x = BOARD_DIM THEN b
    ELSE PropagateRows[PropagateRow[b, x, 0], x + 1]

\* a single pass over the grid, each cell seeing the writes made before it
propagate_constraint(b) == PropagateRows[b, 0]

(***************************************************************************)
(* Inputs: grids the routines are run on                                   *)
(***************************************************************************)
\* the most cells cleared in an input grid
MaxCleared == 4

\* the draws of np.random.randint left unconstrained in a run
MaxDraws == 6

\* a full grid as returned by backtrack_iter, row by row
SolvedRows ==
    << <<1, 2, 7, 5, 9, 6, 4, 8, 3>>,
       <<5, 6, 4, 8, 3, 7, 9, 1, 2>>,
       <<9, 3, 8, 2, 4, 1, 6, 7, 5>>,
       <<7, 9, 3, 4, 5, 2, 8, 6, 1>>,
       <<4, 1, 2, 9, 6, 8, 5, 3, 7>>,
       <<8, 5, 6, 7, 1, 3, 2, 9, 4>>,
       <<2, 4, 1, 6, 7, 9, 3, 5, 8>>,
       <<3, 8, 9, 1, 2, 5, 7, 4, 6>>,
       <<6, 7, 5, 3, 8, 4, 1, 2, 9>> >>

Solved == [c \in Cells |-> SolvedRows[c[1] + 1][c[2] + 1]]

\* the cells the input grids are cleared in
Region == {<<0, 2>>, <<0, 7>>, <<2, 2>>, <<2, 7>>, <<1, 3>>, <<3, 6>>}

Clear(b, cs) == [c \in Cells |-> IF c \in cs THEN 0 ELSE b[c]]

Inputs == {Clear(Solved, cs) : cs \in {s \in SUBSET Region : Cardinality(s) <= MaxCleared}}

\* the full grid with one cell cleared, for every cell
SingleCleared == {Clear(Solved, {c}) : c \in Cells}

EmptyBoard == [c \in Cells |-> 0]

(***************************************************************************)
(* Search                                                                  *)
(***************************************************************************)
\* what a routine leaves behind: a returned value or a raised exception
NoResult == [kind |-> "none"]

Returns(v) == [kind |-> "return", val |-> v]

Raises(e) == [kind |-> "raise", val |-> e]

Top(s) == s[Len(s)]

Front(s) == SubSeq(s, 1, Len(s) - 1)

\* the first index when no unconstrained draw is left
randint(n) == IF draws > 0 THEN 0..(n - 1) ELSE {0}

\* the cells get_unfilled_cell_rand can return: the empty cell at the drawn index
get_unfilled_cell_rand(b) ==
    {zero_indices(b)[cell_index + 1] : cell_index \in randint(Len(zero_indices(b)))}

\* "for candidate in candidates": Python walks the set in hash order; the frames
\* pushed are the same whatever the order, and are pushed here smallest value first
RECURSIVE SetToSeq(_)
SetToSeq(S) ==
    IF S = {} THEN <<>>
    ELSE LET m == CHOOSE v \in S : \A w \in S : v <= w
         IN  <<m>> \o SetToSeq(S \ {m})

Min(a, b) == IF a <= b THEN a ELSE b

\* Children with the frame of the first candidate only
ChildrenFirstOnly(b, x, y) ==
    LET candidates == SetToSeq(construct_candidates(b, x, y))
    IN  [k \in 1..Min(1, Len(candidates)) |->
            propagate_constraint([b EXCEPT ![<<x, y>>] = candidates[k]])]

\* the frames pushed for cell (x, y): one per candidate, each a copy with the
\* candidate assigned and one propagation pass run
Children(b, x, y) ==
    LET candidates == SetToSeq(construct_candidates(b, x, y))
    IN  [k \in 1..Len(candidates) |->
            propagate_constraint([b EXCEPT ![<<x, y>>] = candidates[k]])]

board_in_solutions(b, sols) == \E k \in 1..Len(sols) : sols[k] = b

\* solution_unique: the stack is empty
solution_unique_exhausted ==
    /\ pc # <<>> /\ Top(pc) = "solution_unique"
    /\ stack = <<>>
    /\ result' = Returns(Len(solutions) = 1)
    /\ pc' = Front(pc)
    /\ UNCHANGED <<board, start, stack, solutions, draws, xy, carveVars, pipeVars, heapVars>>

\* solution_unique_filled reporting "not unique" from the first solution on
solution_unique_filledOffByOne ==
    /\ pc # <<>> /\ Top(pc) = "solution_unique"
    /\ stack # <<>> /\ is_filled(Top(stack))
    /\ board' = Top(stack)
    /\ stack' = Front(stack)
    /\ solutions' = IF board_in_solutions(board', solutions) THEN solutions
                    ELSE Append(solutions, board')
    /\ IF Len(solutions') >= 1
       THEN result' = Returns(FALSE) /\ pc' = Front(pc)
       ELSE UNCHANGED <<result, pc>>
    /\ UNCHANGED <<start, draws, xy, carveVars, pipeVars, heapVars>>

\* solution_unique_filled going on until a third solution
solution_unique_filledUntilThird ==
    /\ pc # <<>> /\ Top(pc) = "solution_unique"
    /\ stack # <<>> /\ is_filled(Top(stack))
    /\ board' = Top(stack)
    /\ stack' = Front(stack)
    /\ solutions' = IF board_in_solutions(board', solutions) THEN solutions
                    ELSE Append(solutions, board')
    /\ IF Len(solutions') > 2
       THEN result' = Returns(FALSE) /\ pc' = Front(pc)
       ELSE UNCHANGED <<result, pc>>
    /\ UNCHANGED <<start, draws, xy, carveVars, pipeVars, heapVars>>

\* solution_unique: the popped frame is filled
solution_unique_filled ==
    /\ pc # <<>> /\ Top(pc) = "solution_unique"
    /\ stack # <<>> /\ is_filled(Top(stack))
    /\ board' = Top(stack)
    /\ stack' = Front(stack)
    /\ solutions' = IF board_in_solutions(board', solutions) THEN solutions
                    ELSE Append(solutions, board')
    /\ IF Len(solutions') > 1
       THEN result' = Returns(FALSE) /\ pc' = Front(pc)
       ELSE UNCHANGED <<result, pc>>
    /\ UNCHANGED <<start, draws, xy, carveVars, pipeVars, heapVars>>

\* solution_unique: the popped frame has an empty cell; one is drawn
solution_unique_pop ==
    /\ pc # <<>> /\ Top(pc) = "solution_unique"
    /\ stack # <<>> /\ ~is_filled(Top(stack))
    /\ board' = Top(stack)
    /\ stack' = Front(stack)
    /\ xy' \in get_unfilled_cell_rand(board')
    /\ draws' = IF draws > 0 THEN draws - 1 ELSE 0
    /\ pc' = Front(pc) \o <<"solution_unique_push">>
    /\ UNCHANGED <<start, solutions, result, carveVars, pipeVars, heapVars>>

\* solution_unique: one frame is pushed per candidate of the drawn cell
solution_unique_push ==
    /\ pc # <<>> /\ Top(pc) = "solution_unique_push"
    /\ stack' = stack \o Children(board, xy[1], xy[2])
    /\ pc' = Front(pc) \o <<"solution_unique">>
    /\ UNCHANGED <<board, start, solutions, result, draws, xy, carveVars, pipeVars, heapVars>>

\* the pipeline is not running
NoPipeline ==
    /\ n_jobs = 0 /\ queue_size = 0
    /\ sol_q = <<>> /\ puzzle_q = <<>> /\ db_q = <<>>
    /\ unfinished = [sol_q |-> 0, puzzle_q |-> 0, db_q |-> 0]
    /\ solvers = {} /\ carvers = {}
    /\ db = [pc |-> "none", results |-> <<>>, calls |-> <<>>]
    /\ inserted = [solutions |-> <<>>, puzzles |-> <<>>]
    /\ driver = [pc |-> "none", enqueued |-> 0]

\* no grid object is tracked
NoHeap ==
    /\ heap = <<>>
    /\ refs = [caller |-> 0, stack |-> <<>>, board |-> 0, solutions |-> <<>>]

\* _create_puzzle is not running
NoCarving ==
    /\ puzzle = EmptyBoard /\ positions = <<>> /\ sol = EmptyBoard
    /\ cell = <<0, 0>> /\ old_val = 0 /\ attempts = <<>>

InitUnique ==
    /\ start \in Inputs \cup SingleCleared
    /\ board = start
    /\ stack = <<start>>
    /\ solutions = <<>>
    /\ result = NoResult
    /\ draws = MaxDraws /\ xy = <<0, 0>>
    /\ pc = <<"solution_unique">>
    /\ NoCarving /\ NoPipeline /\ NoHeap

NextUnique ==
    \/ solution_unique_exhausted
    \/ solution_unique_filled
    \/ solution_unique_pop
    \/ solution_unique_push

SpecUnique == InitUnique /\ [][NextUnique]_vars

\* backtrack_iter: the loop is left, by returning the popped frame when it is
\* filled, or by the IndexError of list.pop() on an empty stack
backtrack_iter_leave ==
    /\ pc # <<>> /\ Top(pc) = "backtrack_iter"
    /\ IF stack = <<>>
       THEN /\ result' = Raises("IndexError")
            /\ pc' = <<>>
            /\ UNCHANGED <<board, stack>>
       ELSE /\ is_filled(Top(stack))
            /\ board' = Top(stack)
            /\ stack' = Front(stack)
            /\ result' = Returns(board')
            /\ pc' = Front(pc)
    /\ UNCHANGED <<start, solutions, draws, xy, carveVars, pipeVars, heapVars>>

\* backtrack_iter: the popped frame has an empty cell; one is drawn
backtrack_iter_pop ==
    /\ pc # <<>> /\ Top(pc) = "backtrack_iter"
    /\ stack # <<>> /\ ~is_filled(Top(stack))
    /\ board' = Top(stack)
    /\ stack' = Front(stack)
    /\ xy' \in get_unfilled_cell_rand(board')
    /\ draws' = IF draws > 0 THEN draws - 1 ELSE 0
    /\ pc' = Front(pc) \o <<"backtrack_iter_push">>
    /\ UNCHANGED <<start, solutions, result, carveVars, pipeVars, heapVars>>

\* backtrack_iter: one frame is pushed per candidate of the drawn cell
backtrack_iter_push ==
    /\ pc # <<>> /\ Top(pc) = "backtrack_iter_push"
    /\ stack' = stack \o Children(board, xy[1], xy[2])
    /\ pc' = Front(pc) \o <<"backtrack_iter">>
    /\ UNCHANGED <<board, start, solutions, result, draws, xy, carveVars, pipeVars, heapVars>>

\* np.random.shuffle(np.arange(1, 10)): the orders drawn here are the rotations
NumSeeds == 2

Shuffled(k) == [i \in 1..9 |-> ((i - 1 + k) % 9) + 1]

\* the cells of block n in the order zip() pairs them with arr (any fixed order
\* gives the same grids, arr being a shuffled permutation)
GroupSeq(n) == SelectSeq(ScanOrder, LAMBDA c : c \in groups[n])

\* arrs[n] is the shuffled arr of block n
prefill_diagonals(b, arrs) ==
    [c \in Cells |->
        IF lookup[c] \in {0, 4, 8}
        THEN LET n == lookup[c]
                 k == CHOOSE i \in 1..9 : GroupSeq(n)[i] = c
             IN  arrs[n][k]
        ELSE b[c]]

starting_board(arrs) == prefill_diagonals(EmptyBoard, arrs)

Seeds == {starting_board([n \in {0, 4, 8} |-> Shuffled(k + n)]) : k \in 0..(NumSeeds - 1)}

\* unconstrained draws in a run on a seeded grid, where a draw is among 54 cells
FewDraws == 1

InitSearch ==
    /\ start \in Inputs /\ draws = MaxDraws /\ xy = <<0, 0>>
    /\ board = start
    /\ stack = <<start>>
    /\ solutions = <<>>
    /\ result = NoResult
    /\ pc = <<"backtrack_iter">>
    /\ NoCarving /\ NoPipeline /\ NoHeap

InitSeeded ==
    /\ start \in Seeds /\ draws = FewDraws /\ xy = <<0, 0>>
    /\ board = start
    /\ stack = <<start>>
    /\ solutions = <<>>
    /\ result = NoResult
    /\ pc = <<"backtrack_iter">>
    /\ NoCarving /\ NoPipeline /\ NoHeap

NextSearch ==
    \/ backtrack_iter_leave
    \/ backtrack_iter_pop
    \/ backtrack_iter_push

SpecSearch == InitSearch /\ [][NextSearch]_vars

\* either routine, started on any of the input grids
InitFrames ==
    /\ start \in Inputs \cup SingleCleared
    /\ board = start
    /\ stack = <<start>>
    /\ solutions = <<>>
    /\ result = NoResult
    /\ draws = MaxDraws /\ xy = <<0, 0>>
    /\ pc \in {<<"backtrack_iter">>, <<"solution_unique">>}
    /\ NoCarving /\ NoPipeline /\ NoHeap

NextFrames ==
    \/ backtrack_iter_leave
    \/ backtrack_iter_pop
    \/ backtrack_iter_push
    \/ solution_unique_exhausted
    \/ solution_unique_filled
    \/ solution_unique_pop
    \/ solution_unique_push

SpecFrames == InitFrames /\ [][NextFrames]_vars

\* the search is a sequential loop: it takes its next step as long as it has one
SpecSeeded == InitSeeded /\ [][NextSearch]_vars /\ WF_vars(NextSearch)

(***************************************************************************)
(* Search, with the identity of the grid objects.  heap[i] is the content  *)
(* of object i; the stack, board and solutions hold object names, so that  *)
(* a write through one name is seen through every name of the same object. *)
(***************************************************************************)
\* the candidate loop writing into board itself instead of a copy
RECURSIVE CandidateLoopNoCopy(_, _, _, _, _, _)
CandidateLoopNoCopy(h, st, b, x, y, candidates) ==
    IF candidates = <<>> THEN [heap |-> h, stack |-> st]
    ELSE LET assigned == [h EXCEPT ![b][<<x, y>>] = Head(candidates)]
             propagated == [assigned EXCEPT ![b] = propagate_constraint(assigned[b])]
         IN  CandidateLoopNoCopy(propagated, Append(st, b), b, x, y, Tail(candidates))

\* "for candidate in candidates": copied = board.copy() allocates an object,
\* copied[x, y] = candidate and propagate_constraint(copied) write into it, and
\* its name is pushed
RECURSIVE CandidateLoop(_, _, _, _, _, _)
CandidateLoop(h, st, b, x, y, candidates) ==
    IF candidates = <<>> THEN [heap |-> h, stack |-> st]
    ELSE LET copied == Len(h) + 1
             allocated == Append(h, h[b])
             assigned == [allocated EXCEPT ![copied][<<x, y>>] = Head(candidates)]
             propagated == [assigned EXCEPT ![copied] = propagate_constraint(assigned[copied])]
         IN  CandidateLoop(propagated, Append(st, copied), b, x, y, Tail(candidates))

\* stack.pop() of a frame with an empty cell, and the draw of a cell
heap_pop(routine) ==
    /\ pc # <<>> /\ Top(pc) = routine
    /\ refs.stack # <<>> /\ ~is_filled(heap[Top(refs.stack)])
    /\ refs' = [refs EXCEPT !.board = Top(refs.stack), !.stack = Front(refs.stack)]
    /\ xy' \in get_unfilled_cell_rand(heap[Top(refs.stack)])
    /\ draws' = IF draws > 0 THEN draws - 1 ELSE 0
    /\ pc' = Front(pc) \o <<routine \o "_push">>
    /\ UNCHANGED <<board, start, stack, solutions, result, carveVars, pipeVars, heap>>

\* the candidate loop of either routine
heap_push(routine) ==
    /\ pc # <<>> /\ Top(pc) = routine \o "_push"
    /\ LET candidates == SetToSeq(construct_candidates(heap[refs.board], xy[1], xy[2]))
           after == CandidateLoop(heap, refs.stack, refs.board, xy[1], xy[2], candidates)
       IN  /\ heap' = after.heap
           /\ refs' = [refs EXCEPT !.stack = after.stack]
    /\ pc' = Front(pc) \o <<routine>>
    /\ UNCHANGED <<board, start, stack, solutions, result, draws, xy, carveVars, pipeVars>>

heap_backtrack_iter_pop == heap_pop("backtrack_iter")

heap_backtrack_iter_push == heap_push("backtrack_iter")

heap_solution_unique_pop == heap_pop("solution_unique")

heap_solution_unique_push == heap_push("solution_unique")

\* backtrack_iter: stack.pop() raises on an empty stack; a filled frame is returned
heap_backtrack_iter_leave ==
    /\ pc # <<>> /\ Top(pc) = "backtrack_iter"
    /\ IF refs.stack = <<>>
       THEN /\ result' = Raises("IndexError")
            /\ pc' = <<>>
            /\ UNCHANGED refs
       ELSE /\ is_filled(heap[Top(refs.stack)])
            /\ refs' = [refs EXCEPT !.board = Top(refs.stack), !.stack = Front(refs.stack)]
            /\ result' = Returns(heap[Top(refs.stack)])
            /\ pc' = Front(pc)
    /\ UNCHANGED <<board, start, stack, solutions, draws, xy, carveVars, pipeVars, heap>>

\* solution_unique: the stack is empty
heap_solution_unique_exhausted ==
    /\ pc # <<>> /\ Top(pc) = "solution_unique"
    /\ refs.stack = <<>>
    /\ result' = Returns(Len(refs.solutions) = 1)
    /\ pc' = Front(pc)
    /\ UNCHANGED <<board, start, stack, solutions, draws, xy, carveVars, pipeVars, heapVars>>

\* solution_unique: the popped frame is filled
heap_solution_unique_filled ==
    /\ pc # <<>> /\ Top(pc) = "solution_unique"
    /\ refs.stack # <<>> /\ is_filled(heap[Top(refs.stack)])
    /\ LET popped == Top(refs.stack)
           known == [k \in 1..Len(refs.solutions) |-> heap[refs.solutions[k]]]
           found == IF board_in_solutions(heap[popped], known) THEN refs.solutions
                    ELSE Append(refs.solutions, popped)
       IN  /\ refs' = [refs EXCEPT !.board = popped, !.stack = Front(refs.stack),
                                   !.solutions = found]
           /\ IF Len(found) > 1
              THEN result' = Returns(FALSE) /\ pc' = Front(pc)
              ELSE UNCHANGED <<result, pc>>
    /\ UNCHANGED <<board, start, stack, solutions, draws, xy, carveVars, pipeVars, heap>>

\* either routine is called with the caller's grid object: stack = [board]
InitHeap ==
    /\ start \in Inputs \cup SingleCleared
    /\ heap = <<start>>
    /\ refs = [caller |-> Len(heap), stack |-> <<Len(heap)>>, board |-> Len(heap),
               solutions |-> <<>>]
    /\ board = start /\ stack = <<>> /\ solutions = <<>>
    /\ result = NoResult
    /\ draws = MaxDraws /\ xy = <<0, 0>>
    /\ pc \in {<<"backtrack_iter">>, <<"solution_unique">>}
    /\ NoCarving /\ NoPipeline

NextHeap ==
    \/ heap_backtrack_iter_leave
    \/ heap_backtrack_iter_pop
    \/ heap_backtrack_iter_push
    \/ heap_solution_unique_exhausted
    \/ heap_solution_unique_filled
    \/ heap_solution_unique_pop
    \/ heap_solution_unique_push

SpecHeap == InitHeap /\ [][NextHeap]_vars

(***************************************************************************)
(* Carver                                                                  *)
(***************************************************************************)
\* _create_puzzle: no position is left, the board is returned
_create_puzzle_return ==
    /\ pc # <<>> /\ Top(pc) = "_create_puzzle"
    /\ positions = <<>>
    /\ result' = Returns(puzzle)
    /\ pc' = Front(pc)
    /\ UNCHANGED <<board, start, stack, solutions, draws, xy, carveVars, pipeVars, heapVars>>

\* the cell of a position with the floor left out
CoordinatesNoFloor(position) == <<position % BOARD_DIM, position % BOARD_DIM>>

\* x = position % BOARD_DIM, y = math.floor(position / BOARD_DIM)
Coordinates(position) == <<position % BOARD_DIM, position \div BOARD_DIM>>

\* _create_puzzle: pop a position, clear its cell, call solution_unique(board)
_create_puzzle_attempt ==
    /\ pc # <<>> /\ Top(pc) = "_create_puzzle"
    /\ positions # <<>>
    /\ LET position == Top(positions)
           x == Coordinates(position)[1]
           y == Coordinates(position)[2]
       IN  /\ positions' = Front(positions)
           /\ cell' = <<x, y>>
           /\ old_val' = puzzle[<<x, y>>]
           /\ puzzle' = [puzzle EXCEPT ![<<x, y>>] = 0]
           /\ attempts' = Append(attempts, <<x, y>>)
    /\ stack' = <<puzzle'>>
    /\ solutions' = <<>>
    /\ pc' = Front(pc) \o <<"_create_puzzle_check", "solution_unique">>
    /\ UNCHANGED <<board, start, result, draws, xy, sol, pipeVars, heapVars>>

\* _create_puzzle_check restoring the value at (y, x)
_create_puzzle_checkTransposed ==
    /\ pc # <<>> /\ Top(pc) = "_create_puzzle_check"
    /\ puzzle' = IF ~result.val THEN [puzzle EXCEPT ![<<cell[2], cell[1]>>] = old_val]
                                ELSE puzzle
    /\ pc' = Front(pc) \o <<"_create_puzzle">>
    /\ UNCHANGED <<board, start, stack, solutions, result, draws, xy,
                   positions, sol, cell, old_val, attempts, pipeVars, heapVars>>

\* _create_puzzle: solution_unique has returned; restore the cell unless unique
_create_puzzle_check ==
    /\ pc # <<>> /\ Top(pc) = "_create_puzzle_check"
    /\ puzzle' = IF ~result.val THEN [puzzle EXCEPT ![cell] = old_val] ELSE puzzle
    /\ pc' = Front(pc) \o <<"_create_puzzle">>
    /\ UNCHANGED <<board, start, stack, solutions, result, draws, xy,
                   positions, sol, cell, old_val, attempts, pipeVars, heapVars>>

\* np.random.shuffle(np.arange(81)): the orders drawn here are the strides
\* 1, 2, 4, 5, 7, ... through 0..80
NumOrders == 2

Stride(k) == k + ((k - 1) \div 2)

Orders ==
    {[i \in 1..(BOARD_DIM * BOARD_DIM) |-> (Stride(k) * (i - 1)) % (BOARD_DIM * BOARD_DIM)] :
        k \in 1..NumOrders}

\* create_puzzle hands _create_puzzle a copy of a solution
InitCarve ==
    /\ sol = Solved
    /\ puzzle = sol
    /\ positions \in Orders
    /\ cell = <<0, 0>> /\ old_val = 0 /\ attempts = <<>>
    /\ start = sol /\ board = sol
    /\ stack = <<>> /\ solutions = <<>>
    /\ result = NoResult
    /\ draws = MaxDraws /\ xy = <<0, 0>>
    /\ pc = <<"_create_puzzle">>
    /\ NoPipeline /\ NoHeap

NextCarve ==
    \/ _create_puzzle_return
    \/ _create_puzzle_attempt
    \/ _create_puzzle_check
    \/ solution_unique_exhausted
    \/ solution_unique_filled
    \/ solution_unique_pop
    \/ solution_unique_push

SpecCarve == InitCarve /\ [][NextCarve]_vars

(***************************************************************************)
(* Grid operations on their own: a cell write of the routines above        *)
(* (assigning a value, clearing a cell) applied to an input grid, and      *)
(* propagation passes run on the result; stack holds the grids before each *)
(* operation                                                               *)
(***************************************************************************)
\* the most grids kept in stack: an operation and a pass, or two passes
MaxPasses == 2

\* copied[x, y] = candidate; board[x, y] = old_val
grid_fill ==
    /\ pc # <<>> /\ pc[1] = "grid" /\ stack = <<>>
    /\ \E c \in Region, v \in COMPLETE_ROW :
          /\ board[c] = 0
          /\ board' = [board EXCEPT ![c] = v]
          /\ cell' = c
    /\ stack' = Append(stack, board)
    /\ pc' = <<"grid", "fill">>
    /\ UNCHANGED <<start, solutions, result, draws, xy, puzzle, positions, sol, old_val, attempts,
                   pipeVars, heapVars>>

\* board[x, y] = 0
grid_clear ==
    /\ pc # <<>> /\ pc[1] = "grid" /\ stack = <<>>
    /\ \E c \in Region :
          /\ board[c] # 0
          /\ board' = [board EXCEPT ![c] = 0]
          /\ cell' = c
    /\ stack' = Append(stack, board)
    /\ pc' = <<"grid", "clear">>
    /\ UNCHANGED <<start, solutions, result, draws, xy, puzzle, positions, sol, old_val, attempts,
                   pipeVars, heapVars>>

\* copied = propagate_constraint(copied)
grid_propagate ==
    /\ pc # <<>> /\ pc[1] = "grid" /\ Len(stack) < MaxPasses
    /\ board' = propagate_constraint(board)
    /\ stack' = Append(stack, board)
    /\ pc' = <<"grid", "propagate">>
    /\ UNCHANGED <<start, solutions, result, draws, xy, carveVars, pipeVars, heapVars>>

InitGrid ==
    /\ start \in Inputs
    /\ board = start
    /\ stack = <<>>
    /\ solutions = <<>>
    /\ result = NoResult
    /\ draws = 0 /\ xy = <<0, 0>>
    /\ pc = <<"grid", "start">>
    /\ NoCarving /\ NoPipeline /\ NoHeap

NextGrid ==
    \/ grid_fill
    \/ grid_clear
    \/ grid_propagate

SpecGrid == InitGrid /\ [][NextGrid]_vars

(***************************************************************************)
(* Generation pipeline (main and its worker processes).  A job is named by *)
(* its ct; the grids the workers compute are those of the routines above.  *)
(***************************************************************************)
\* the largest n_jobs
MaxJobs == 3

\* the largest queue_size
MaxQueue == 4

\* for __ in range(3): create_solution processes
NumCreate == 3

\* for __ in range(5): create_puzzle processes
NumPuzzle == 5


\* main: db_batch_size
db_batch_size ==
    IF n_jobs # 0 THEN Min(queue_size \div 2, n_jobs) ELSE queue_size \div 2

\* Queue.full(); a queue made with maxsize <= 0 is unbounded
full(q, maxsize) == maxsize > 0 /\ Len(q) >= maxsize

Put(name) == [unfinished EXCEPT ![name] = @ + 1]

TaskDone(name, n) == [unfinished EXCEPT ![name] = @ - n]

\* main: sol_q.put((starting_board(), enqueued,))
main_enqueue ==
    /\ driver.pc = "enqueue"
    /\ driver.enqueued < n_jobs
    /\ ~full(sol_q, queue_size)
    /\ sol_q' = Append(sol_q, driver.enqueued)
    /\ unfinished' = Put("sol_q")
    /\ driver' = [driver EXCEPT !.enqueued = @ + 1]
    /\ UNCHANGED <<engineVars, n_jobs, queue_size, puzzle_q, db_q, solvers, carvers, db, inserted>>

\* main: enqueued >= n_jobs, break
main_break ==
    /\ driver.pc = "enqueue"
    /\ driver.enqueued >= n_jobs
    /\ driver' = [driver EXCEPT !.pc = "sol_q.join"]
    /\ UNCHANGED <<engineVars, n_jobs, queue_size, sol_q, puzzle_q, db_q, unfinished, solvers, carvers,
                   db, inserted>>

\* main: sol_q.join(), puzzle_q.join(), db_q.join(), then "Finished."
main_join ==
    /\ \/ /\ driver.pc = "sol_q.join" /\ unfinished.sol_q = 0
          /\ driver' = [driver EXCEPT !.pc = "puzzle_q.join"]
       \/ /\ driver.pc = "puzzle_q.join" /\ unfinished.puzzle_q = 0
          /\ driver' = [driver EXCEPT !.pc = "db_q.join"]
       \/ /\ driver.pc = "db_q.join" /\ unfinished.db_q = 0
          /\ driver' = [driver EXCEPT !.pc = "finished"]
    /\ UNCHANGED <<engineVars, n_jobs, queue_size, sol_q, puzzle_q, db_q, unfinished, solvers, carvers,
                   db, inserted>>

\* the processes of one role run the same loop and are interchangeable: a role is
\* the set of its processes that hold a job, each at its position; the others are
\* blocked in input_q.get()
Holding(job) == [pc |-> "put", job |-> job]

At(w, pos) == [w EXCEPT !.pc = pos]

\* create_solution: board = input_q.get()
create_solution_get ==
    /\ Cardinality(solvers) < NumCreate
    /\ sol_q # <<>>
    /\ solvers' = solvers \cup {Holding(Head(sol_q))}
    /\ sol_q' = Tail(sol_q)
    /\ UNCHANGED <<engineVars, n_jobs, queue_size, puzzle_q, db_q, unfinished, carvers, db, inserted,
                   driver>>

\* create_solution_put with a put that does not block: on a full queue queue.Full is
\* raised and caught, and the process goes back to input_q.get() without the job
create_solution_putNoWait(w) ==
    /\ w.pc = "put"
    /\ IF full(puzzle_q, queue_size)
       THEN /\ solvers' = solvers \ {w}
            /\ UNCHANGED <<puzzle_q, unfinished>>
       ELSE /\ puzzle_q' = Append(puzzle_q, w.job)
            /\ unfinished' = Put("puzzle_q")
            /\ solvers' = (solvers \ {w}) \cup {At(w, "task_done")}
    /\ UNCHANGED <<engineVars, n_jobs, queue_size, sol_q, db_q, carvers, db, inserted, driver>>

\* create_solution: output_q.put((backtrack_iter(board), ct)), blocking while full
create_solution_put(w) ==
    /\ w.pc = "put"
    /\ ~full(puzzle_q, queue_size)
    /\ puzzle_q' = Append(puzzle_q, w.job)
    /\ unfinished' = Put("puzzle_q")
    /\ solvers' = (solvers \ {w}) \cup {At(w, "task_done")}
    /\ UNCHANGED <<engineVars, n_jobs, queue_size, sol_q, db_q, carvers, db, inserted, driver>>

\* create_solution: input_q.task_done()
create_solution_task_done(w) ==
    /\ w.pc = "task_done"
    /\ unfinished' = TaskDone("sol_q", 1)
    /\ solvers' = solvers \ {w}
    /\ UNCHANGED <<engineVars, n_jobs, queue_size, sol_q, puzzle_q, db_q, carvers, db, inserted, driver>>

\* create_puzzle_get calling input_q.task_done() as soon as the job is taken
create_puzzle_getMarksDone ==
    /\ Cardinality(carvers) < NumPuzzle
    /\ puzzle_q # <<>>
    /\ carvers' = carvers \cup {Holding(Head(puzzle_q))}
    /\ puzzle_q' = Tail(puzzle_q)
    /\ unfinished' = TaskDone("puzzle_q", 1)
    /\ UNCHANGED <<engineVars, n_jobs, queue_size, sol_q, db_q, solvers, db, inserted, driver>>

\* create_puzzle: sol = input_q.get()
create_puzzle_get ==
    /\ Cardinality(carvers) < NumPuzzle
    /\ puzzle_q # <<>>
    /\ carvers' = carvers \cup {Holding(Head(puzzle_q))}
    /\ puzzle_q' = Tail(puzzle_q)
    /\ UNCHANGED <<engineVars, n_jobs, queue_size, sol_q, db_q, unfinished, solvers, db, inserted,
                   driver>>

\* create_puzzle: output_q.put((_create_puzzle(puzzle), sol, ct,)), blocking while full
create_puzzle_put(w) ==
    /\ w.pc = "put"
    /\ ~full(db_q, db_batch_size)
    /\ db_q' = Append(db_q, w.job)
    /\ unfinished' = Put("db_q")
    /\ carvers' = (carvers \ {w}) \cup {At(w, "task_done")}
    /\ UNCHANGED <<engineVars, n_jobs, queue_size, sol_q, puzzle_q, solvers, db, inserted, driver>>

\* create_puzzle: input_q.task_done()
create_puzzle_task_done(w) ==
    /\ w.pc = "task_done"
    /\ unfinished' = TaskDone("puzzle_q", 1)
    /\ carvers' = carvers \ {w}
    /\ UNCHANGED <<engineVars, n_jobs, queue_size, sol_q, puzzle_q, db_q, solvers, db, inserted, driver>>

\* the calls of one flush, in the order to_db makes them: insert_solutions,
\* insert_puzzles, then input_q.task_done() once per element of results
Inserts(results) ==
    << [fn |-> "insert_solutions", batch |-> results],
       [fn |-> "insert_puzzles", batch |-> results] >>

FlushCalls(results) ==
    Inserts(results) \o [k \in 1..Len(results) |-> [fn |-> "task_done", batch |-> <<>>]]

\* to_db_loop calling task_done as soon as the triple is taken from the queue
to_db_loopEarlyTaskDone ==
    /\ db.pc = "loop"
    /\ db_q # <<>> \/ Len(db.results) >= db_batch_size
    /\ LET results == IF db_q # <<>> THEN Append(db.results, Head(db_q)) ELSE db.results
       IN  /\ db_q' = IF db_q # <<>> THEN Tail(db_q) ELSE db_q
           /\ unfinished' = IF db_q # <<>> THEN TaskDone("db_q", 1) ELSE unfinished
           /\ IF Len(results) >= db_batch_size
              THEN IF results = <<>>
                   THEN /\ db' = [db EXCEPT !.pc = "ValueError", !.results = results]
                        /\ UNCHANGED inserted
                   ELSE /\ inserted' = [solutions |-> Append(inserted.solutions, results),
                                        puzzles |-> Append(inserted.puzzles, results)]
                        /\ db' = [db EXCEPT !.results = <<>>, !.calls = @ \o Inserts(results)]
              ELSE /\ db' = [db EXCEPT !.results = results]
                   /\ UNCHANGED inserted
    /\ UNCHANGED <<engineVars, n_jobs, queue_size, sol_q, puzzle_q, solvers, carvers, driver>>

\* to_db: one turn of the loop that changes something.  sentinel stays True, so
\* the break is never taken and a batch is flushed only when it is full;
\* zip(*results) of an empty batch cannot be unpacked (ValueError).
to_db_loop ==
    /\ db.pc = "loop"
    /\ db_q # <<>> \/ Len(db.results) >= db_batch_size
    /\ LET results == IF db_q # <<>> THEN Append(db.results, Head(db_q)) ELSE db.results
       IN  /\ db_q' = IF db_q # <<>> THEN Tail(db_q) ELSE db_q
           /\ IF Len(results) >= db_batch_size
              THEN IF results = <<>>
                   THEN /\ db' = [db EXCEPT !.pc = "ValueError", !.results = results]
                        /\ UNCHANGED <<inserted, unfinished>>
                   ELSE /\ inserted' = [solutions |-> Append(inserted.solutions, results),
                                        puzzles |-> Append(inserted.puzzles, results)]
                        /\ unfinished' = TaskDone("db_q", Len(results))
                        /\ db' = [db EXCEPT !.results = <<>>, !.calls = @ \o FlushCalls(results)]
              ELSE /\ db' = [db EXCEPT !.results = results]
                   /\ UNCHANGED <<inserted, unfinished>>
    /\ UNCHANGED <<engineVars, n_jobs, queue_size, sol_q, puzzle_q, solvers, carvers, driver>>

\* no grid routine is running
NoGrid ==
    /\ pc = <<>> /\ board = EmptyBoard /\ start = EmptyBoard
    /\ stack = <<>> /\ solutions = <<>> /\ result = NoResult /\ draws = 0 /\ xy = <<0, 0>>

InitPipe ==
    /\ n_jobs \in 0..MaxJobs
    /\ queue_size \in 1..MaxQueue
    /\ sol_q = <<>> /\ puzzle_q = <<>> /\ db_q = <<>>
    /\ unfinished = [sol_q |-> 0, puzzle_q |-> 0, db_q |-> 0]
    /\ solvers = {}
    /\ carvers = {}
    /\ db = [pc |-> "loop", results |-> <<>>, calls |-> <<>>]
    /\ inserted = [solutions |-> <<>>, puzzles |-> <<>>]
    /\ driver = [pc |-> "enqueue", enqueued |-> 0]
    /\ NoGrid /\ NoCarving /\ NoHeap

NextPipe ==
    \/ main_enqueue
    \/ main_break
    \/ main_join
    \/ create_solution_get
    \/ \E w \in solvers : create_solution_put(w)
    \/ \E w \in solvers : create_solution_task_done(w)
    \/ create_puzzle_get
    \/ \E w \in carvers : create_puzzle_put(w)
    \/ \E w \in carvers : create_puzzle_task_done(w)
    \/ to_db_loop

\* some process that can take a step does take one
SpecPipe == InitPipe /\ [][NextPipe]_vars /\ WF_vars(NextPipe)

(***************************************************************************)
(* What the claims are stated with: validity and completions of a grid,    *)
(* defined from the rules of the game and not from the routines above      *)
(***************************************************************************)
SameGroup(c, d) ==
    \/ c[1] = d[1]
    \/ c[2] = d[2]
    \/ (c[1] \div 3 = d[1] \div 3 /\ c[2] \div 3 = d[2] \div 3)

PeerTable == [c \in Cells |-> {d \in Cells : d # c /\ SameGroup(c, d)}]

Peers(c) == PeerTable[c]

\* no non-zero value occurs twice in a row, a column or a block
Consistent(b) == \A c \in Cells : b[c] # 0 => \A d \in Peers(c) : b[d] # b[c]

\* every row, column and block holds each of 1..9 exactly once
ValidFull(b) == (\A c \in Cells : b[c] \in 1..9) /\ Consistent(b)

Allowed(b, c) == (1..9) \ {b[d] : d \in Peers(c)}

Empties(b) == {c \in Cells : b[c] = 0}

\* the number of valid full grids that agree with b on its filled cells, counted up to 2
RECURSIVE NumCompletions(_)
RECURSIVE SumCompletions(_, _, _, _)
SumCompletions(b, c, vals, acc) ==
    IF vals = {} \/ acc >= 2 THEN acc
    ELSE LET v == CHOOSE w \in vals : TRUE
             n == NumCompletions([b EXCEPT ![c] = v])
         IN  IF n >= 0 THEN SumCompletions(b, c, vals \ {v}, acc + n) ELSE acc

NumCompletions(b) ==
    IF ~Consistent(b) THEN 0
    ELSE IF Empties(b) = {} THEN 1
    ELSE LET open == [e \in Empties(b) |-> Cardinality(Allowed(b, e))]
             least == CHOOSE n \in 0..9 :
                          /\ \E e \in Empties(b) : open[e] = n
                          /\ \A e \in Empties(b) : open[e] >= n
             c == CHOOSE e \in Empties(b) : open[e] = least
         IN  SumCompletions(b, c, Allowed(b, c), 0)

Returned == pc = <<>> /\ result.kind = "return"

(***************************************************************************)
(* Claims                                                                  *)
(***************************************************************************)
\* C1: for a consistent partial grid and any random cell choices, solution_unique
\* returns True if and only if the grid has exactly one valid completion.
C1_UniqueIffOneCompletion ==
    (Returned /\ Consistent(start))
        => (result.val = TRUE <=> NumCompletions(start) = 1)

\* C7: on a valid full grid with at most one cell cleared, solution_unique returns True.
C7_AtMostOneClearedIsUnique ==
    (Returned /\ count_nonzero(start) >= BOARD_DIM * BOARD_DIM - 1)
        => result.val = TRUE

\* a grid with one cell cleared, outside the cells of Region, found unique
C7_Witness ==
    /\ Returned /\ result.val = TRUE
    /\ start \in SingleCleared \ Inputs

\* C3: from a consistent starting grid, any grid backtrack_iter returns has no
\* empty cell and holds each of 1..9 exactly once in every row, column and block.
C3_ReturnedGridValid ==
    (Returned /\ Consistent(start)) => ValidFull(result.val)

C3_Witness ==
    /\ Returned /\ Consistent(start)
    /\ count_nonzero(start) < BOARD_DIM * BOARD_DIM - 2
    /\ ValidFull(result.val)

IsSeed(b) ==
    /\ \A n \in {0, 4, 8} : {b[c] : c \in groups[n]} = 1..9
    /\ \A c \in Cells : lookup[c] \notin {0, 4, 8} => b[c] = 0

C2_CarvedHasOneCompletion ==
    (Returned /\ ValidFull(sol)) => NumCompletions(result.val) = 1

\* C8: the puzzle returned is S with some cells cleared: every non-empty cell holds
\* the value of S, and at least one cell is empty.
C8_CarvedIsClearedSolution ==
    (Returned /\ ValidFull(sol)) =>
        /\ \A c \in Cells : result.val[c] \in {0, sol[c]}
        /\ count_nonzero(result.val) < count_nonzero(sol)

C8_Witness ==
    /\ Returned /\ ValidFull(sol)
    /\ count_nonzero(result.val) < count_nonzero(sol)
    /\ count_nonzero(result.val) > 0

\* the grid before the last grid operation
Before == Top(stack)

LastOp(op) == pc = <<"grid", op>>

\* C9: propagate_constraint returns unchanged a grid in which no empty cell has
\* exactly one candidate.
C9_PropagateKeepsSettledGrid ==
    (LastOp("propagate")
        /\ \A c \in Cells :
              Before[c] = 0 => Cardinality(construct_candidates(Before, c[1], c[2])) # 1)
        => board = Before

\* C10: filling a cell never adds a value to the candidates of another cell, and
\* clearing a cell never removes one.
C10_CandidatesMonotone ==
    /\ LastOp("fill") =>
          \A d \in Cells \ {cell} :
              construct_candidates(board, d[1], d[2])
                  \subseteq construct_candidates(Before, d[1], d[2])
    /\ LastOp("clear") =>
          \A d \in Cells \ {cell} :
              construct_candidates(Before, d[1], d[2])
                  \subseteq construct_candidates(board, d[1], d[2])

\* a fill that removed a candidate of another cell
C10_Witness ==
    /\ LastOp("fill")
    /\ \E d \in Cells \ {cell} :
          construct_candidates(board, d[1], d[2]) # construct_candidates(Before, d[1], d[2])

RECURSIVE Flatten(_)
Flatten(batches) ==
    IF batches = <<>> THEN <<>> ELSE Head(batches) \o Flatten(Tail(batches))

\* the jobs whose solution and puzzle have both been inserted
Persisted ==
    {Flatten(inserted.solutions)[i] : i \in 1..Len(Flatten(inserted.solutions))}
        \cap {Flatten(inserted.puzzles)[i] : i \in 1..Len(Flatten(inserted.puzzles))}

Finished == driver.pc = "finished"

\* C5: a run with a target of N jobs eventually has exactly N pairs persisted and
\* the driver past its last join, whatever the queue capacity and batch size.
C5_AllPersistedAndFinished ==
    <>(Finished /\ Len(Flatten(inserted.puzzles)) = n_jobs /\ Cardinality(Persisted) = n_jobs)

\* C6: when the driver reports the run finished, every job it enqueued has been
\* inserted; none is in a queue, held by a worker or in an unflushed batch.
C6_FinishedMeansAllInserted ==
    Finished =>
        /\ Persisted = 0..(n_jobs - 1)
        /\ sol_q = <<>> /\ puzzle_q = <<>> /\ db_q = <<>>
        /\ solvers = {} /\ carvers = {}
        /\ db.results = <<>>

C6_Witness == Finished /\ n_jobs >= 2 /\ Persisted = 0..(n_jobs - 1)

\* C11: propagate_constraint writes only cells that are empty when the scan reaches
\* them: a cell that is non-empty before the pass holds the same value after it.
C11_PropagateKeepsFilledCells ==
    LastOp("propagate") => \A c \in Cells : Before[c] # 0 => board[c] = Before[c]

\* C12: from a consistent grid P, any grid backtrack_iter returns holds P's value at
\* every cell that is filled in P.
C12_ReturnedGridCompletesStart ==
    (Returned /\ Consistent(start))
        => \A c \in Cells : start[c] # 0 => result.val[c] = start[c]

\* the driver has enqueued its last job and no job is upstream of to_db
UpstreamDone ==
    /\ driver.pc # "enqueue"
    /\ sol_q = <<>> /\ puzzle_q = <<>> /\ db_q = <<>>
    /\ solvers = {} /\ carvers = {}

\* to_db holds a batch that is non-empty but shorter than db_batch_size
PartialBatch == db.results # <<>> /\ Len(db.results) < db_batch_size

\* C13: once the upstream is done, a non-empty batch shorter than the batch size is
\* eventually flushed: no triple stays in results for ever.
C13_PartialBatchFlushed == (UpstreamDone /\ PartialBatch) ~> (db.results = <<>>)

\* how often job j occurs in the sequence q
Count(q, j) == Cardinality({i \in 1..Len(q) : q[i] = j})

\* how many processes of the role ws hold job j at position pos
Holders(ws, j, pos) == Cardinality({w \in ws : w.job = j /\ w.pc = pos})

\* how often job j occurs in the places of the pipeline, a place of stage k
\* counting weight[k]: on sol_q, with a solution worker that has not put it yet, on
\* puzzle_q, with a puzzle worker that has not put it yet, on db_q, in the batch of
\* to_db, inserted
Weighted(j, weight) ==
    weight[1] * Count(sol_q, j) + weight[2] * Holders(solvers, j, "put")
        + weight[3] * Count(puzzle_q, j) + weight[4] * Holders(carvers, j, "put")
        + weight[5] * Count(db_q, j) + weight[6] * Count(db.results, j)
        + weight[7] * Count(Flatten(inserted.puzzles), j)

\* the number of places job j is at
Places(j) == Weighted(j, <<1, 1, 1, 1, 1, 1, 1>>)

\* the stage job j has reached: 0 before it is enqueued, 7 once inserted
Stage(j) == Weighted(j, <<1, 2, 3, 4, 5, 6, 7>>)

\* every id enqueued so far is at exactly one place, no other id is anywhere
EachJobOnce ==
    /\ driver.enqueued <= n_jobs
    /\ \A j \in 0..MaxJobs :
          /\ Places(j) = IF j < driver.enqueued THEN 1 ELSE 0
          /\ Cardinality({w \in solvers : w.job = j}) <= 1
          /\ Cardinality({w \in carvers : w.job = j}) <= 1
          /\ Count(Flatten(inserted.solutions), j) = Count(Flatten(inserted.puzzles), j)

\* C14: in every interleaving each id 0..N-1 is enqueued once and is from then on at
\* exactly one place of the pipeline, moving forward only: it is never dropped (a
\* producer facing a full queue keeps it), never taken, put or inserted twice.
C14_NoJobLostOrDuplicated ==
    /\ []EachJobOnce
    /\ [][\A j \in 0..MaxJobs : Stage(j)' >= Stage(j)]_vars

\* a solution worker holds a job while puzzle_q is full, and another job is inserted
C14_Witness ==
    /\ \E w \in solvers : w.pc = "put" /\ full(puzzle_q, queue_size)
    /\ inserted.puzzles # <<>>
    /\ EachJobOnce

\* C15: the puzzle returned by _create_puzzle is a local optimum: clearing any one
\* cell that is still filled in it gives a grid with more than one valid completion.
C15_CarvedIsLocalOptimum ==
    (Returned /\ ValidFull(sol)) =>
        \A c \in Cells :
            result.val[c] # 0 => NumCompletions([result.val EXCEPT ![c] = 0]) > 1

\* C16: in backtrack_iter and in solution_unique, started on a consistent grid, every
\* frame on the stack is consistent: no non-zero value occurs twice in a row, a
\* column or a 3x3 block of it.
C16_PushedFramesConsistent ==
    Consistent(start) => \A k \in 1..Len(stack) : Consistent(stack[k])

\* frames have just been pushed, and the propagation pass rewrote a filled cell of one
C16_Witness ==
    /\ Consistent(start)
    /\ pc # <<>> /\ Top(pc) \in {"backtrack_iter", "solution_unique"}
    /\ Len(stack) >= 2
    /\ \E c \in Cells : board[c] # 0 /\ Top(stack)[c] # board[c]
    /\ Consistent(Top(stack))

\* solution_unique is running / leaves at this step
InVerifier == pc # <<>> /\ Top(pc) \in {"solution_unique", "solution_unique_push"}

VerifierLeaves == pc # <<>> /\ Top(pc) = "solution_unique" /\ pc' = Front(pc)

SolutionsDistinct ==
    /\ Len(solutions) <= 2
    /\ \A k \in 1..Len(solutions) : is_filled(solutions[k])
    /\ \A k, l \in 1..Len(solutions) : k # l => solutions[k] # solutions[l]
    /\ Len(solutions) = 2 => ~InVerifier

SecondSolutionReturnsFalse ==
    Len(solutions') > Len(solutions) /\ Len(solutions') = 2
        => /\ VerifierLeaves /\ result' = Returns(FALSE)
           /\ stack' = Front(stack)
           /\ solutions' = Append(solutions, Top(stack))

TrueOnlyWhenExhausted ==
    VerifierLeaves /\ result' = Returns(TRUE)
        => stack = <<>> /\ Len(solutions) = 1 /\ solutions' = solutions

\* C17: in solution_unique the solutions list holds pairwise different full grids,
\* never more than two; the step that adds the second grid returns False and pops
\* no further frame; True is returned only from an empty stack with exactly one
\* grid in the list.
C17_SolutionsBoundedAndDistinct ==
    /\ []SolutionsDistinct
    /\ [][SecondSolutionReturnsFalse /\ TrueOnlyWhenExhausted]_vars

\* False was returned on the second grid with frames still on the stack
C17_Witness ==
    /\ ~InVerifier /\ result = Returns(FALSE)
    /\ Len(solutions) = 2 /\ solutions[1] # solutions[2]
    /\ stack # <<>>

\* the names on the stack are pairwise different objects
StackDistinct ==
    \A k, l \in 1..Len(refs.stack) : k # l => refs.stack[k] # refs.stack[l]

\* no object that exists is written, and what a step pushes was allocated by it
OnlyFreshWritten ==
    /\ \A i \in 1..Len(heap) : heap'[i] = heap[i]
    /\ \A k \in 1..Len(refs.stack') :
          k > Len(refs.stack) => refs.stack'[k] > Len(heap)

\* C18: solution_unique and backtrack_iter never write the grid object the caller
\* passed in; every frame they push is a new object, different from its parent and
\* its siblings, and no object is written once it exists; so the caller's grid,
\* the carver's grid during a verifier call, is unchanged.
C18_CallerGridNeverWritten ==
    /\ [](heap[refs.caller] = start /\ StackDistinct)
    /\ [][OnlyFreshWritten]_vars

\* several frames are on the stack, the top one rewritten by propagation
C18_Witness ==
    /\ pc # <<>> /\ Top(pc) \in {"backtrack_iter", "solution_unique"}
    /\ Len(refs.stack) >= 2
    /\ heap[refs.caller] = start
    /\ \E c \in Cells : start[c] # 0 /\ heap[Top(refs.stack)][c] # start[c]

StartsVerifier ==
    /\ pc' # <<>> /\ Top(pc') = "solution_unique"
    /\ ~(pc # <<>> /\ Top(pc) \in {"solution_unique", "solution_unique_push"})

OneVerifierRunPerAttempt ==
    /\ attempts' # attempts =>
          /\ Len(attempts') = Len(attempts) + 1
          /\ StartsVerifier /\ stack' = <<puzzle'>> /\ solutions' = <<>>
    /\ StartsVerifier => attempts' # attempts

AttemptsDistinct ==
    \A k, l \in 1..Len(attempts) : k # l => attempts[k] # attempts[l]

AllTried ==
    /\ Len(attempts) = BOARD_DIM * BOARD_DIM
    /\ {attempts[k] : k \in 1..Len(attempts)} = Cells

\* C19: _create_puzzle tries each of the 81 coordinates exactly once: no cell is
\* attempted twice, the loop returns after exactly 81 attempts that cover every
\* cell, and each attempt starts the verifier once.
C19_EachCellTriedOnce ==
    /\ [](AttemptsDistinct /\ (Returned => AllTried))
    /\ [][OneVerifierRunPerAttempt]_vars

\* _create_puzzle has returned after trying all 81 cells
C19_Witness == Returned /\ AllTried /\ AttemptsDistinct /\ positions = <<>>

\* job j is on the puzzle queue or further down; on the persistence queue or further
AtDb(j) == Count(db_q, j) + Count(db.results, j) + Count(Flatten(inserted.puzzles), j)

AtCarver(j) == Count(puzzle_q, j) + Cardinality({w \in carvers : w.job = j})

\* the task_done calls among the first k calls of to_db, and the triples of the
\* batches both inserts were issued for among them, solutions first
DoneCalls(k) == Cardinality({i \in 1..k : db.calls[i].fn = "task_done"})

InsertedTriples(k) ==
    Cardinality({im \in (2..k) \X (1..MaxJobs) :
        /\ db.calls[im[1]].fn = "insert_puzzles"
        /\ db.calls[im[1] - 1] = [fn |-> "insert_solutions", batch |-> db.calls[im[1]].batch]
        /\ im[2] <= Len(db.calls[im[1]].batch)})

DoneAfterDownstream ==
    /\ \A w \in solvers : w.pc = "task_done" => AtCarver(w.job) + AtDb(w.job) >= 1
    /\ \A w \in carvers : w.pc = "task_done" => AtDb(w.job) >= 1
    /\ \A k \in 1..Len(db.calls) :
          /\ db.calls[k].fn = "task_done" => DoneCalls(k) <= InsertedTriples(k)
          /\ db.calls[k].fn = "insert_puzzles" => InsertedTriples(k) > InsertedTriples(k - 1)
    /\ DoneCalls(Len(db.calls)) = Len(Flatten(inserted.puzzles))

\* per queue, the items taken that task_done was not called for are never negative
NoMoreDoneThanTaken ==
    /\ unfinished.sol_q - Len(sol_q) >= 0
    /\ unfinished.puzzle_q - Len(puzzle_q) >= 0
    /\ unfinished.db_q - Len(db_q) >= 0

\* a step that calls task_done is a step of a process that already passed its
\* result on
DoneStep ==
    /\ unfinished'.sol_q < unfinished.sol_q =>
          /\ unfinished'.sol_q = unfinished.sol_q - 1
          /\ \E w \in solvers \ solvers' :
                w.pc = "task_done" /\ AtCarver(w.job) + AtDb(w.job) >= 1
    /\ unfinished'.puzzle_q < unfinished.puzzle_q =>
          /\ unfinished'.puzzle_q = unfinished.puzzle_q - 1
          /\ \E w \in carvers \ carvers' : w.pc = "task_done" /\ AtDb(w.job) >= 1
    /\ unfinished'.db_q < unfinished.db_q =>
          /\ Len(inserted.solutions') = Len(inserted.solutions) + 1
          /\ Len(inserted.puzzles') = Len(inserted.puzzles) + 1
          /\ Top(inserted.solutions') = Top(inserted.puzzles')
          /\ unfinished.db_q - unfinished'.db_q = Len(Top(inserted.puzzles'))

\* C20: a job is marked done on a queue only after its result has gone downstream:
\* a solution worker about to call task_done has its job on the puzzle queue or
\* beyond, a puzzle worker has it on the persistence queue or beyond, and to_db
\* calls task_done once per triple after insert_solutions and then insert_puzzles
\* of the batch; task_done is never called more often than items were taken.
C20_DoneOnlyAfterDownstream ==
    /\ [](DoneAfterDownstream /\ NoMoreDoneThanTaken)
    /\ [][DoneStep]_vars

\* a solution worker and a puzzle worker are about to call task_done, and to_db
\* has flushed a batch
C20_Witness ==
    /\ \E w \in solvers : w.pc = "task_done"
    /\ \E w \in carvers : w.pc = "task_done"
    /\ db.calls # <<>> /\ Top(db.calls).fn = "task_done"
    /\ DoneAfterDownstream

====
